---------------------------- MODULE Spec2Model ----------------------------
(***************************************************************************)
(* Model of detect-cms-cli.js: the plan table, the Detector Client         *)
(* (detectCMS), the Output Namer (getOutputFilename) and the main scan     *)
(* loop with its Bottleneck limiter, quota counter and result rows.        *)
(*                                                                         *)
(* Conventions.  A JavaScript value that may be undefined is the string    *)
(* Undef.  A value whose JavaScript type varies (array, undefined, other)  *)
(* is a record [kind, items].  A path is a record [dir, stem, ext] whose   *)
(* stem is the sequence of the hyphen-separated parts of the base name.    *)
(* Time is in milliseconds.                                                *)
(***************************************************************************)
EXTENDS Integers, Sequences, FiniteSets, TLC

\* ------------------------------------------------------------------ bounds
\* Longest domain list handed to the scan.
MaxDomains == 2
\* The plan quotas are counted in units of QuotaScale detections, so that a
\* run of MaxDomains domains can exhaust the smallest quota.
QuotaScale == 500
\* The wall clock read by the Output Namer, in half seconds.
MaxClock == 2
\* Longest technology list of a payload: one more than the slots of a row.
MaxTechs == 11

Undef == "<undefined>"

\* ------------------------------------------------------------- plan table
PlanIds ==
  {"free", "10000", "20000", "50000", "100000",
   "200000", "300000", "400000", "500000"}

PLANS ==
  [p \in PlanIds |->
     CASE p = "free"   -> [monthlyQuota |-> 500,    minTimeMs |-> 15000]
       [] p = "10000"  -> [monthlyQuota |-> 10000,  minTimeMs |-> 5000]
       [] p = "20000"  -> [monthlyQuota |-> 20000,  minTimeMs |-> 2000]
       [] p = "50000"  -> [monthlyQuota |-> 50000,  minTimeMs |-> 1000]
       [] p = "100000" -> [monthlyQuota |-> 100000, minTimeMs |-> 1000]
       [] p = "200000" -> [monthlyQuota |-> 200000, minTimeMs |-> 250]
       [] p = "300000" -> [monthlyQuota |-> 300000, minTimeMs |-> 250]
       [] p = "400000" -> [monthlyQuota |-> 400000, minTimeMs |-> 250]
       [] p = "500000" -> [monthlyQuota |-> 500000, minTimeMs |-> 250]]

\* monthlyQuota of a plan in units of QuotaScale detections (rounded up, so
\* that every plan keeps a positive quota).
monthlyQuota(p) == (PLANS[p].monthlyQuota + QuotaScale - 1) \div QuotaScale

minTimeMs(p) == PLANS[p].minTimeMs

\* axios timeout of one detection request.
TIMEOUT == 15000

\* Number of technology slot groups of a row.
SLOTS == 10

\* ------------------------------------------------------ upstream payloads
UndefValue == [kind |-> "undef", items |-> <<>>]
ArrayOf(s) == [kind |-> "array", items |-> s]
\* a value that is neither undefined nor an array (a string, say)
OtherValue == [kind |-> "other", items |-> <<>>]

Tech(n, i, v, c, u) ==
  [name |-> n, id |-> i, version |-> v, categories |-> c, url |-> u]

UmbracoTech ==
  Tech("Umbraco", "1234", "10.0.0", ArrayOf(<<"CMS">>), "https://umbraco.com")
BareTech == Tech("nginx", Undef, Undef, UndefValue, Undef)
\* categories sent as a plain string instead of an array
BadTech == Tech("jQuery", "77", Undef, OtherValue, Undef)

Payload(e, m, rq, lc, rc, rm, rs, so) ==
  [error |-> e, msg |-> m, request |-> rq, last_checked |-> lc,
   result_code |-> rc, result_msg |-> rm, results |-> rs, social |-> so]

OkPayload ==
  Payload(FALSE, Undef, "https://a", "2024-01-15", "200", "Success",
          ArrayOf(<<UmbracoTech, BareTech>>), ArrayOf(<<>>))
SparsePayload ==
  Payload(FALSE, Undef, Undef, Undef, Undef, Undef, UndefValue, UndefValue)
BadPayload ==
  Payload(FALSE, Undef, "https://a", "2024-01-15", "200", "Success",
          ArrayOf(<<BadTech>>), ArrayOf(<<>>))
ErrPayload ==
  Payload(TRUE, "Invalid API key", Undef, Undef, Undef, Undef,
          UndefValue, UndefValue)
ErrNoMsgPayload ==
  Payload(TRUE, Undef, Undef, Undef, Undef, Undef, UndefValue, UndefValue)

\* What one HTTP request can end in: a 2xx response with a body, a failure
\* of the call (connection failure, non-2xx), or the 15 s timeout.
Response(p) == [kind |-> "response", data |-> p, message |-> ""]
NetFail     == [kind |-> "neterror", data |-> SparsePayload,
                message |-> "connect ECONNREFUSED"]
TimedOut    == [kind |-> "timeout", data |-> SparsePayload,
                message |-> "timeout of 15000ms exceeded"]

ScanPayloads == {OkPayload, BadPayload, ErrPayload, ErrNoMsgPayload}

\* ---------------------------------------------------------- detectCMS
\* the value taken without its || '' default
OrEmpty_Identity(x) == x

\* x || '' for a string-or-undefined x
OrEmpty(x) == IF x = Undef THEN "" ELSE x

\* x || [] for an array-or-undefined x (any other truthy value is kept)
OrEmptyArray(x) == IF x.kind = "undef" THEN ArrayOf(<<>>) ELSE x

\* new Error(m).message: an undefined message gives the empty string
ErrorMessage(m) == IF m = Undef THEN "" ELSE m

Thrown(m) == [ok |-> FALSE, message |-> m, techData |-> Undef]
Returned(t) == [ok |-> TRUE, message |-> "", techData |-> t]

detectCMS(outcome) ==
  IF outcome.kind # "response"
    THEN Thrown(outcome.message)
    ELSE IF outcome.data.error
      THEN Thrown(ErrorMessage(outcome.data.msg))
      ELSE Returned(
        [request      |-> OrEmpty(outcome.data.request),
         last_checked |-> OrEmpty(outcome.data.last_checked),
         result_code  |-> OrEmpty(outcome.data.result_code),
         result_msg   |-> OrEmpty(outcome.data.result_msg),
         results      |-> OrEmptyArray(outcome.data.results),
         meta_social  |-> OrEmptyArray(outcome.data.social),
         error        |-> ""])

\* ------------------------------------------------------- row construction
EmptyText == [empty |-> TRUE, json |-> <<>>]
\* JSON.stringify of an array: never the empty string
JSONstringify(v) == [empty |-> FALSE, json |-> v.items]

EmptySlot ==
  [name |-> "", id |-> "", version |-> "", categories |-> <<>>, url |-> ""]

Min(a, b) == IF a < b THEN a ELSE b

\* arr.join(', ') as the sequence of its pieces
RECURSIVE Join(_)
Join(s) ==
  IF Len(s) = 0 THEN <<>>
  ELSE IF Len(s) = 1 THEN <<s[1]>>
  ELSE <<s[1], ", ">> \o Join(Tail(s))

FilledSlot(tech) ==
  [name       |-> OrEmpty(tech.name),
   id         |-> OrEmpty(tech.id),
   version    |-> OrEmpty(tech.version),
   categories |-> IF tech.categories.kind = "undef" THEN <<>>
                  ELSE Join(tech.categories.items),
   url        |-> OrEmpty(tech.url)]

\* tech.categories.join(...) of a truthy non-array throws a TypeError, and so
\* does techData.results.find / .length of a non-array
SlotThrows(tech) == tech.categories.kind = "other"

RowThrows(techData) ==
  \/ techData.results.kind # "array"
  \/ \E k \in 1..Min(Len(techData.results.items), SLOTS) :
        SlotThrows(techData.results.items[k])

TypeErrorMessage == "tech.categories.join is not a function"

\* err.message of the exception of the success branch: results.find of a
\* non-array fails first
RowErrorMessage(techData) ==
  IF techData.results.kind # "array"
    THEN "techData.results.find is not a function"
    ELSE TypeErrorMessage

\* ------------------------------------------------------ target platform
\* the characters of the technology names that have upper-case letters; any
\* other name of the model is one lower-case piece
Spelling ==
  [n \in {"Umbraco", "UMBRACO", "umbraco", "Umbracoo", "jQuery"} |->
     CASE n = "Umbraco"  -> <<"U", "m", "b", "r", "a", "c", "o">>
       [] n = "UMBRACO"  -> <<"U", "M", "B", "R", "A", "C", "O">>
       [] n = "umbraco"  -> <<"u", "m", "b", "r", "a", "c", "o">>
       [] n = "Umbracoo" -> <<"U", "m", "b", "r", "a", "c", "o", "o">>
       [] n = "jQuery"   -> <<"j", "Q", "u", "e", "r", "y">>]

Spell(n) == IF n \in DOMAIN Spelling THEN Spelling[n] ELSE <<n>>

LowerCase ==
  [c \in {"U", "M", "B", "R", "A", "C", "O", "Q"} |->
     CASE c = "U" -> "u" [] c = "M" -> "m" [] c = "B" -> "b"
       [] c = "R" -> "r" [] c = "A" -> "a" [] c = "C" -> "c"
       [] c = "O" -> "o" [] c = "Q" -> "q"]

\* name.toLowerCase(), character by character
toLowerCase(n) ==
  [k \in 1..Len(Spell(n)) |->
     IF Spell(n)[k] \in DOMAIN LowerCase THEN LowerCase[Spell(n)[k]]
     ELSE Spell(n)[k]]

\* the comparison without toLowerCase()
NameMatches_CaseSensitive(name) ==
  /\ name # Undef
  /\ name # ""
  /\ Spell(name) = Spell("umbraco")

\* line 252: result.name && result.name.toLowerCase() === 'umbraco'
NameMatches(name) ==
  /\ name # Undef
  /\ name # ""
  /\ toLowerCase(name) = Spell("umbraco")

\* lines 251-255: techData.results.find(...) found an entry
umbracoResult(items) == \E k \in 1..Len(items) : NameMatches(items[k].name)

\* the slot loops reading techData.results[i + 1] for slot i + 1
TechSlots_OffByOne(items) ==
  [k \in 1..SLOTS |->
     IF k + 1 <= Min(Len(items), SLOTS) THEN FilledSlot(items[k + 1])
     ELSE EmptySlot]

\* the two slot loops of the success branch
TechSlots(items) ==
  [k \in 1..SLOTS |->
     IF k <= Min(Len(items), SLOTS) THEN FilledSlot(items[k]) ELSE EmptySlot]

SuccessRow(domain, techData) ==
  [domain           |-> domain,
   request          |-> techData.request,
   last_checked     |-> techData.last_checked,
   result_code      |-> techData.result_code,
   result_msg       |-> techData.result_msg,
   results_count    |-> Len(techData.results.items),
   results_json     |-> JSONstringify(techData.results),
   meta_social_json |-> JSONstringify(techData.meta_social),
   error            |-> techData.error,
   tech             |-> TechSlots(techData.results.items)]

ErrorRow(domain, message) ==
  [domain           |-> domain,
   request          |-> "",
   last_checked     |-> "",
   result_code      |-> "",
   result_msg       |-> "",
   results_count    |-> 0,
   results_json     |-> EmptyText,
   meta_social_json |-> EmptyText,
   error            |-> message,
   tech             |-> [k \in 1..SLOTS |-> EmptySlot]]

\* ------------------------------------------------------------ Output Namer
\* A string that the program takes apart is the sequence of its pieces: the
\* domain a.nl is <<"a", ".", "nl">>, and concatenation is \o.
Path(d, s, e) == [dir |-> d, stem |-> s, ext |-> e]

\* the default of --output
ResultsCsv == Path("", <<"results">>, ".csv")
\* an empty --output value
NoPath == Path("", <<>>, "")

\* new Date().toISOString().replace(/[:.]/g, '-').slice(0, -5): the clock
\* reading cut to whole seconds (the clock counts half seconds)
StampText ==
  <<"2024-01-15T10-30-00", "2024-01-15T10-30-01", "2024-01-15T10-30-02",
    "2024-01-15T10-30-03">>
Stamp(t) == StampText[(t \div 2) + 1]

\* opts.domain.replace(/[^a-zA-Z0-9]/g, '-')
Sanitized(domain) ==
  [k \in 1..Len(domain) |-> IF domain[k] = "." THEN "-" ELSE domain[k]]

\* parts.join('-') for a sequence of strings
RECURSIVE JoinParts(_)
JoinParts(parts) ==
  IF Len(parts) = 0 THEN <<>>
  ELSE IF Len(parts) = 1 THEN parts[1]
  ELSE parts[1] \o <<"-">> \o JoinParts(Tail(parts))

generateDefaultFilename(o, timestamp) ==
  LET parts ==
        <<(<<"cms-scan">>)>>
        \o (IF o.domain # <<>>
              THEN <<(<<"single">>), Sanitized(o.domain)>>
              ELSE (IF o.source # "" THEN <<(<<o.source>>)>> ELSE <<>>)
                   \o (IF o.extension # <<>> THEN <<o.extension>> ELSE <<>>)
                   \o (IF o.limit # 0
                         THEN <<(<<"limit-", ToString(o.limit)>>)>>
                         ELSE <<>>))
        \o <<(<<timestamp>>)>>
  IN  Path("", JoinParts(parts), ".csv")

\* lines 142-148: the path before the existence check; ts1 is the timestamp
\* of generateDefaultFilename
ResolvedFilename(o, ts1) ==
  IF o.output = NoPath \/ o.output = ResultsCsv
    THEN generateDefaultFilename(o, ts1)
    ELSE o.output

\* path.basename(filename, ext) followed by `${base}-${timestamp}${ext}`:
\* the directory part is dropped
Restamped(f, timestamp) == Path("", f.stem \o <<"-", timestamp>>, f.ext)

\* ts1, ts2: the timestamps of the two new Date() calls; files: the paths
\* that exist on disk
getOutputFilename(o, files, ts1, ts2) ==
  LET filename == ResolvedFilename(o, ts1)
  IN  IF filename \in files THEN Restamped(filename, ts2) ELSE filename

\* ------------------------------------------------------------------ inputs
Domain == {<<"a", ".", "nl">>, <<"b", ".", "nl">>, <<"c", ".", "com">>}

\* the contents of a domains file or of a downloaded list
DomainLists == UNION {[1..n -> Domain] : n \in 0..MaxDomains}

ReportCsv == Path("out/", <<"report">>, ".csv")

\* outputGiven: -o was on the command line (commander reports only the value)
Opts(k, p, s, e, f, in, d, l, o, g) ==
  [apiKey |-> k, plan |-> p, source |-> s, extension |-> e, fetch |-> f,
   input |-> in, domain |-> d, limit |-> l, output |-> o, outputGiven |-> g]

\* --input with every plan name; the free plan with every credential, source
\* and input mode; and --input with every extension, limit and output
RunOpts ==
  {Opts(TRUE, p, "tranco", <<"nl">>, FALSE, TRUE, <<>>, 0, ResultsCsv, FALSE) :
     p \in PlanIds \cup {"gold"}}
  \cup
  {Opts(k, "free", s, <<"nl">>, m[1], m[2], m[3], 0, ResultsCsv, FALSE) :
     k \in BOOLEAN,
     s \in {"tranco", "majestic", "alexa", "bing"},
     m \in {<<TRUE, FALSE, <<>> >>, <<FALSE, TRUE, <<>> >>,
            <<FALSE, FALSE, <<"c", ".", "com">> >>,
            <<FALSE, FALSE, <<>> >>}}
  \cup
  {Opts(TRUE, "free", "tranco", e, FALSE, TRUE, <<>>, l, o, o # ResultsCsv) :
     e \in {<<"nl">>, <<".", "nl">>},
     l \in {0, 1},
     o \in {ResultsCsv, ReportCsv}}

\* the instants at which the model looks at the clock: the limiter's
\* intervals and the request timeout
Instants == {0, TIMEOUT} \cup {PLANS[p].minTimeMs : p \in PlanIds}

Outcomes == {Response(p) : p \in ScanPayloads} \cup {NetFail, TimedOut}

\* no request has been sent yet
NoResponse == [kind |-> "none", data |-> SparsePayload, message |-> ""]

\* ------------------------------------------------------------------- state
VARIABLES
  opts,            \* program.opts() and the environment (apiKey)
  pc,              \* position of the main async function
  domains,         \* let domains
  i,               \* loop variable of the scan loop
  used,            \* let used
  results,         \* const results
  halted,          \* the loop was left through the quota break
  queue,           \* limiter: jobs scheduled and not yet launched
  running,         \* limiter: jobs launched and not yet finished
  inFlight,        \* detection requests sent and not yet settled
  failures,        \* loop indices whose detectCMS call threw
  resp,            \* what the latest detection request ended in
  matches,         \* loop indices reported as Umbraco (line 256)
  sinceStart,      \* time since the limiter launched its last job
  invoked,         \* loop indices for which detectCMS was called, in order
  fetched,         \* a domain list was downloaded
  exitCode,        \* process.exit code, -1 while running
  fs,              \* paths that exist on disk
  outputFilename,  \* const outputFilename
  stamps,          \* the two timestamps of getOutputFilename
  report           \* files written by csvWriter.writeRecords

vars ==
  <<opts, pc, domains, i, used, results, halted, queue, running, inFlight,
    failures, resp, matches, sinceStart, invoked, fetched, exitCode, fs,
    outputFilename, stamps, report>>

plan == PLANS[opts.plan]

total == Len(domains)

\* the limiter built without the plan's interval
limiter_NoMinTime == [maxConcurrent |-> 1, minTime |-> 0]

\* new Bottleneck({ maxConcurrent: 1, minTime: plan.minTimeMs })
limiter == [maxConcurrent |-> 1, minTime |-> minTimeMs(opts.plan)]

Init ==
  /\ opts \in RunOpts
  /\ pc = "start"
  /\ domains = <<>>
  /\ i = 0
  /\ used = 0
  /\ results = <<>>
  /\ halted = FALSE
  /\ queue = <<>>
  /\ running = {}
  /\ inFlight = {}
  /\ failures = {}
  /\ resp = NoResponse
  /\ matches = {}
  /\ sinceStart = 0
  /\ invoked = <<>>
  /\ fetched = FALSE
  /\ exitCode = -1
  /\ fs \in {{}, {ReportCsv}}
  /\ fs \subseteq {opts.output}
  /\ outputFilename = NoPath
  /\ stamps = <<"", "">>
  /\ report = {}

Exit(code) ==
  /\ pc' = "exit"
  /\ exitCode' = code

\* lines 13-17 and 176-186: credential, source and plan checks
Startup ==
  /\ pc = "start"
  /\ IF ~opts.apiKey THEN Exit(1)
     ELSE IF opts.source = "alexa" THEN Exit(1)
     ELSE IF opts.plan \notin PlanIds THEN Exit(1)
     ELSE pc' = "load" /\ exitCode' = exitCode
  /\ UNCHANGED <<opts, domains, i, used, results, halted, queue, running,
                 inFlight, failures, resp, matches, sinceStart, invoked,
                 fetched, fs, outputFilename, stamps, report>>

\* opts.extension.replace(/^\./, '')
StripDot(e) == IF e # <<>> /\ e[1] = "." THEN Tail(e) ELSE e

EndsWith(d, pat) ==
  /\ Len(d) >= Len(pat)
  /\ SubSeq(d, Len(d) - Len(pat) + 1, Len(d)) = pat

\* new RegExp(`\\.${ext}$`, 'i').test(d)
tldPattern(o, d) == EndsWith(d, <<".">> \o StripDot(o.extension))

\* lines 220-225
Filtered(o, raw) ==
  IF o.domain # <<>> THEN raw
  ELSE LET kept == SelectSeq(raw, LAMBDA d : tldPattern(o, d))
       IN  IF o.limit # 0 THEN SubSeq(kept, 1, Min(o.limit, Len(kept)))
           ELSE kept

\* lines 215-236 for the list just loaded
Prepare(raw) ==
  IF Len(raw) = 0
    THEN /\ Exit(0)
         /\ UNCHANGED domains
    ELSE /\ domains' = Filtered(opts, raw)
         /\ pc' = "loop"
         /\ exitCode' = exitCode

\* lines 190-236: load the list, leave on an empty one, filter and limit it
LoadDomains ==
  /\ pc = "load"
  /\ IF opts.fetch
       THEN IF opts.source \in {"majestic", "tranco"}
              THEN /\ fetched' = TRUE
                   /\ \E raw \in DomainLists : Prepare(raw)
              ELSE /\ Exit(1)
                   /\ UNCHANGED <<domains, fetched>>
     ELSE IF opts.input
       THEN /\ \E raw \in DomainLists : Prepare(raw)
            /\ UNCHANGED fetched
     ELSE IF opts.domain # <<>>
       THEN /\ Prepare(<<opts.domain>>)
            /\ UNCHANGED fetched
     ELSE /\ Exit(1)
          /\ UNCHANGED <<domains, fetched>>
  /\ UNCHANGED <<opts, i, used, results, halted, queue, running, inFlight,
                 failures, resp, matches, sinceStart, invoked, fs,
                 outputFilename, stamps, report>>

\* --------------------------------------------------------------- scan loop
\* the comparison written as used > plan.monthlyQuota
QuotaReached_Off(u, q) == u > q

\* line 240: used >= plan.monthlyQuota
QuotaReached(u, q) == u >= q

\* the quota warning without its break: the domain is dispatched all the same
LoopStep_NoBreak ==
  /\ pc = "loop"
  /\ IF i >= total
       THEN /\ pc' = "output"
            /\ UNCHANGED <<halted, queue>>
     ELSE /\ halted' = (halted \/ QuotaReached(used, monthlyQuota(opts.plan)))
          /\ queue' = Append(queue, i + 1)
          /\ pc' = "await"
  /\ UNCHANGED <<opts, domains, i, used, results, running, inFlight,
                 failures, resp, matches, sinceStart, invoked, fetched,
                 exitCode, fs, outputFilename, stamps, report>>

\* the quota branch leaving through process.exit instead of break
LoopStep_HaltExits ==
  /\ pc = "loop"
  /\ IF i >= total
       THEN /\ pc' = "output"
            /\ UNCHANGED <<halted, queue, exitCode>>
     ELSE IF QuotaReached(used, monthlyQuota(opts.plan))
       THEN /\ halted' = TRUE
            /\ Exit(1)
            /\ UNCHANGED queue
     ELSE /\ queue' = Append(queue, i + 1)
          /\ pc' = "await"
          /\ UNCHANGED <<halted, exitCode>>
  /\ UNCHANGED <<opts, domains, i, used, results, running, inFlight,
                 failures, resp, matches, sinceStart, invoked, fetched, fs,
                 outputFilename, stamps, report>>

\* lines 238-247: loop test, quota check, limiter.schedule(...)
LoopStep ==
  /\ pc = "loop"
  /\ IF i >= total
       THEN /\ pc' = "output"
            /\ UNCHANGED <<halted, queue>>
     ELSE IF QuotaReached(used, monthlyQuota(opts.plan))
       THEN /\ halted' = TRUE
            /\ pc' = "output"
            /\ UNCHANGED queue
     ELSE /\ queue' = Append(queue, i + 1)
          /\ pc' = "await"
          /\ UNCHANGED halted
  /\ UNCHANGED <<opts, domains, i, used, results, running, inFlight,
                 failures, resp, matches, sinceStart, invoked, fetched,
                 exitCode, fs, outputFilename, stamps, report>>

\* Bottleneck launches the oldest queued job when fewer than maxConcurrent
\* jobs run and minTime has passed since the previous launch; the job calls
\* detectCMS(domain), which sends the request
LimiterStart ==
  /\ queue # <<>>
  /\ Cardinality(running) < limiter.maxConcurrent
  /\ invoked = <<>> \/ sinceStart >= limiter.minTime
  /\ running' = running \cup {Head(queue)}
  /\ inFlight' = inFlight \cup {Head(queue)}
  /\ invoked' = Append(invoked, Head(queue))
  /\ queue' = Tail(queue)
  /\ sinceStart' = 0
  /\ UNCHANGED <<opts, pc, domains, i, used, results, halted, failures, resp,
                 matches, fetched, exitCode, fs, outputFilename, stamps,
                 report>>

\* the instant up to which nothing happens: the request timeout while a
\* request is out, the limiter's timer while a job waits
Deadline == IF inFlight # {} THEN TIMEOUT ELSE limiter.minTime

\* time passes while the main function is suspended in the await of line 247
Tick ==
  /\ pc = "await"
  /\ invoked # <<>>
  /\ \E t \in Instants :
       /\ sinceStart < t
       /\ t <= Deadline
       /\ sinceStart' = t
  /\ UNCHANGED <<opts, pc, domains, i, used, results, halted, queue, running,
                 inFlight, failures, resp, matches, invoked, fetched,
                 exitCode, fs, outputFilename, stamps, report>>

\* lines 248-294 once detectCMS returned techData
SuccessBranch(domain, techData) ==
  IF RowThrows(techData)
    THEN ErrorRow(domain, RowErrorMessage(techData))
    ELSE SuccessRow(domain, techData)

\* results.unshift(row)
Push_Unshift(rows, row) == <<row>> \o rows

\* results.push(row)
Push(rows, row) == Append(rows, row)

\* the catch branch without its results.push(errorResult)
NextResults_NoCatchPush(rows, domain, r) ==
  IF r.ok
    THEN Push(rows, SuccessBranch(domain, r.techData))
    ELSE rows

\* lines 246-321: results after the iteration of one domain, r being what the
\* awaited detectCMS call gave
NextResults(rows, domain, r) ==
  IF r.ok
    THEN Push(rows, SuccessBranch(domain, r.techData))
    ELSE Push(rows, ErrorRow(domain, r.message))

\* used++ moved behind the construction of the row
NextUsed_AfterRow(u, r) ==
  IF r.ok /\ ~RowThrows(r.techData) THEN u + 1 ELSE u

\* used++ moved in front of the await
NextUsed_Always(u, r) == u + 1

\* lines 247-248: used++ is reached only when the await did not throw
NextUsed(u, r) == IF r.ok THEN u + 1 ELSE u

\* a failed detection tried again: the loop variable kept on failure
NextIndex_Retry(k, r) == IF r.ok THEN k + 1 ELSE k

\* line 238: i++ ends every iteration, whichever branch was taken
NextIndex(k, r) == k + 1

\* lines 251-256: the domain is reported as Umbraco; the report is reached
\* only if detectCMS returned and results.find did not throw
Reported(r) ==
  /\ r.ok
  /\ r.techData.results.kind = "array"
  /\ umbracoResult(r.techData.results.items)

\* () => { detectCMS(domain) }: the job does not return the promise of the
\* request, which stays out after the job has finished
Outstanding_NotAwaited(out, k) == out

\* () => detectCMS(domain) returns the promise of the request, so the job of
\* domain k finishes when its request has settled: that request is no longer
\* out when the await returns
Outstanding(out, k) == out \ {k}

\* lines 247-321: the request of the current domain settles in one of the
\* given outcomes, the await returns or throws, the row is built and pushed,
\* i++
SettleWith(outcomes) ==
  /\ pc = "await"
  /\ (i + 1) \in running
  /\ \E outcome \in outcomes :
       /\ IF outcome.kind = "timeout" THEN sinceStart = TIMEOUT
                                      ELSE sinceStart < TIMEOUT
       /\ resp' = outcome
       /\ LET r == detectCMS(outcome)
          IN  /\ results' = NextResults(results, domains[i + 1], r)
              /\ used' = NextUsed(used, r)
              /\ failures' = IF r.ok THEN failures ELSE failures \cup {i + 1}
              /\ matches' = IF Reported(r) THEN matches \cup {i + 1}
                            ELSE matches
              /\ i' = NextIndex(i, r)
  /\ running' = running \ {i + 1}
  /\ inFlight' = Outstanding(inFlight, i + 1)
  /\ pc' = "loop"
  /\ UNCHANGED <<opts, domains, halted, queue, sinceStart, invoked, fetched,
                 exitCode, fs, outputFilename, stamps, report>>

Settle == SettleWith(Outcomes)

\* lines 324-400: name the report and write every row
Output ==
  /\ pc = "output"
  /\ \E t1, t2 \in 0..MaxClock :
       /\ t1 <= t2
       /\ stamps' = <<Stamp(t1), Stamp(t2)>>
       /\ outputFilename' = getOutputFilename(opts, fs, Stamp(t1), Stamp(t2))
  /\ report' = report \cup {[path |-> outputFilename', rows |-> results]}
  /\ fs' = fs \cup {outputFilename'}
  /\ pc' = "done"
  /\ UNCHANGED <<opts, domains, i, used, results, halted, queue, running,
                 inFlight, failures, resp, matches, sinceStart, invoked,
                 fetched, exitCode>>

Next ==
  \/ Startup
  \/ LoadDomains
  \/ LoopStep
  \/ LimiterStart
  \/ Tick
  \/ Settle
  \/ Output

Spec == Init /\ [][Next]_vars

\* the run under its scheduling: the event loop resumes the main function
\* whenever it can go on, timers expire, and every request sent settles
\* (the response arrives, the connection fails or the timeout fires)
FairSpec ==
  /\ Spec
  /\ WF_vars(LoopStep)
  /\ WF_vars(LimiterStart)
  /\ WF_vars(Tick)
  /\ WF_vars(Settle)
  /\ WF_vars(Output)

\* ------------------------------------------- the Output Namer on its own
\* getOutputFilename applied to run parameters and a disk drawn from small
\* sets; nothing is written
\* without -o the value of opts.output is the default
NamerOpts ==
  {x \in {Opts(TRUE, "free", s, <<"nl">>, FALSE, d = <<>>, d, l, o, g) :
            s \in {"tranco", "majestic"},
            d \in {<<>>, <<"a", ".", "nl">>},
            l \in {0, 1},
            o \in {ResultsCsv, NoPath, ReportCsv,
                   Path("", <<"report">>, ".csv")},
            g \in BOOLEAN} :
     x.outputGiven \/ x.output = ResultsCsv}

\* the paths the call can resolve to or return
NamerPaths ==
  UNION {{ResolvedFilename(o, Stamp(0)),
          Restamped(ResolvedFilename(o, Stamp(0)), Stamp(0))} :
           o \in NamerOpts}

NamerFiles == {F \in SUBSET NamerPaths : Cardinality(F) <= 2}

NamerInit ==
  /\ opts \in NamerOpts
  /\ pc = "output"
  /\ domains = <<>>
  /\ i = 0
  /\ used = 0
  /\ results = <<>>
  /\ halted = FALSE
  /\ queue = <<>>
  /\ running = {}
  /\ inFlight = {}
  /\ failures = {}
  /\ resp = NoResponse
  /\ matches = {}
  /\ sinceStart = 0
  /\ invoked = <<>>
  /\ fetched = FALSE
  /\ exitCode = -1
  /\ fs \in NamerFiles
  /\ outputFilename = NoPath
  /\ stamps = <<"", "">>
  /\ report = {}

\* line 324: const outputFilename = getOutputFilename(opts)
NamerCall ==
  /\ pc = "output"
  /\ \E t1, t2 \in 0..MaxClock :
       /\ t1 <= t2
       /\ stamps' = <<Stamp(t1), Stamp(t2)>>
       /\ outputFilename' = getOutputFilename(opts, fs, Stamp(t1), Stamp(t2))
  /\ pc' = "named"
  /\ UNCHANGED <<opts, domains, i, used, results, halted, queue, running,
                 inFlight, failures, resp, matches, sinceStart, invoked,
                 fetched, exitCode, fs, report>>

NamerNext == NamerCall

NamerSpec == NamerInit /\ [][NamerNext]_vars

\* ------------------------------------- one detection and its row, alone
\* The run stands in the await of its first domain with the request out; the
\* request ends in a response drawn from a larger set of payloads.
TechNames ==
  <<"nginx", "php", "react", "mysql", "apache", "bootstrap", "vue", "redis",
    "varnish", "webpack", "matomo", "drupal", "piwik">>

FullTech(k) ==
  Tech(TechNames[k], ToString(1000 + k), "1.0", ArrayOf(<<"Web", "Server">>),
       "https://example.org")

NoTech == Tech(Undef, Undef, Undef, UndefValue, Undef)

TechShapes ==
  {"UMBRACO", "Umbraco", "umbraco", "Umbracoo", "noName", "noId",
   "noVersion", "noCategories", "noUrl", "nothing", "badCategories"}

Shaped(t, shape) ==
  CASE shape \in {"UMBRACO", "Umbraco", "umbraco", "Umbracoo"} ->
         [t EXCEPT !.name = shape]
    [] shape = "noName"        -> [t EXCEPT !.name = Undef]
    [] shape = "noId"          -> [t EXCEPT !.id = Undef]
    [] shape = "noVersion"     -> [t EXCEPT !.version = Undef]
    [] shape = "noCategories"  -> [t EXCEPT !.categories = UndefValue]
    [] shape = "noUrl"         -> [t EXCEPT !.url = Undef]
    [] shape = "nothing"       -> NoTech
    [] shape = "badCategories" -> [t EXCEPT !.categories = OtherValue]

\* n technologies, the j-th of them of the given shape
TechList(n, j, shape) ==
  [k \in 1..n |-> IF k = j THEN Shaped(FullTech(k), shape) ELSE FullTech(k)]

TechLists ==
  {TechList(n, 0, "nothing") : n \in 0..MaxTechs}
  \cup UNION {{TechList(n, j, sh) : j \in 1..n, sh \in TechShapes} :
                n \in 1..MaxTechs}

\* payloads with every top-level field present and any technology list, and
\* payloads with any top-level field absent
RowPayloads ==
  {Payload(FALSE, Undef, "https://a", "2024-01-15", "200", "Success",
           ArrayOf(l), ArrayOf(<<"twitter">>)) : l \in TechLists}
  \cup
  {Payload(FALSE, Undef, rq, lc, rc, rm, rs, so) :
     rq \in {Undef, "https://a"}, lc \in {Undef, "2024-01-15"},
     rc \in {Undef, "200"}, rm \in {Undef, "Success"},
     rs \in {UndefValue, OtherValue, ArrayOf(<<FullTech(1)>>)},
     so \in {UndefValue, ArrayOf(<<"twitter">>)}}

RowOutcomes == {Response(p) : p \in RowPayloads}

RowInit ==
  /\ opts = Opts(TRUE, "10000", "tranco", <<"nl">>, FALSE, TRUE, <<>>, 0,
                 ResultsCsv, FALSE)
  /\ pc = "await"
  /\ domains = << <<"a", ".", "nl">> >>
  /\ i = 0
  /\ used = 0
  /\ results = <<>>
  /\ halted = FALSE
  /\ queue = <<>>
  /\ running = {1}
  /\ inFlight = {1}
  /\ failures = {}
  /\ resp = NoResponse
  /\ matches = {}
  /\ sinceStart = 0
  /\ invoked = <<1>>
  /\ fetched = FALSE
  /\ exitCode = -1
  /\ fs = {}
  /\ outputFilename = NoPath
  /\ stamps = <<"", "">>
  /\ report = {}

RowSettle == SettleWith(RowOutcomes)

RowNext == RowSettle

RowSpec == RowInit /\ [][RowNext]_vars

\* ------------------------------------------------------------ properties
Scanning == pc \in {"loop", "await", "output", "done"}

Finished == pc \in {"output", "done"}

\* C1: in every state of a scan run, whatever the plan, the domains and the
\* outcomes of the detections, used is at most the plan's monthlyQuota.
C1_QuotaNeverExceeded ==
  Scanning => used <= monthlyQuota(opts.plan)

\* the quota was reached and the loop left with domains still to scan
C1_Witness ==
  /\ halted
  /\ used = monthlyQuota(opts.plan)
  /\ i < total

\* C2: when the run has finished (Completed or Halted), used equals the
\* number of domains for which detectCMS was invoked, failed calls included.
C2_UsedCountsInvocations ==
  Finished => used = Len(invoked)

\* C3: detectCMS calls begin in the order in which the loop scheduled them,
\* and each one after the first begins at least the plan's minTimeMs after
\* the one before it.
C3_MinInterval ==
  [][invoked' # invoked =>
       /\ invoked' = Append(invoked, Len(invoked) + 1)
       /\ invoked # <<>> => sinceStart >= minTimeMs(opts.plan)]_vars

\* a second detection has just been launched
C3_Witness ==
  /\ Len(invoked) >= 2
  /\ sinceStart = 0
  /\ inFlight # {}

\* C4: at most one detection request is out at any time.
C4_SingleFlight ==
  Cardinality(inFlight) <= 1

\* a request is out after an earlier one has settled
C4_Witness ==
  /\ inFlight # {}
  /\ i >= 1

\* C5: when the run has finished, there is exactly one row per dispatched
\* domain: as many rows as detections dispatched, the k-th row being the row
\* of the k-th dispatched domain.
C5_OneRowPerDomain ==
  Finished =>
    /\ Len(results) = Len(invoked)
    /\ Len(results) = i
    /\ \A k \in 1..Len(invoked) : results[k].domain = domains[invoked[k]]

\* a finished run of two domains, one of which failed
C5_Witness ==
  /\ pc = "done"
  /\ Len(results) = 2
  /\ failures # {}

\* C6: a failed detection does not abort the run: the domain gets exactly one
\* row, with the domain, a non-empty failure message, results count 0 and
\* every other field and slot empty, and the following domains are processed.
C6_FailureRow ==
  /\ \A k \in failures :
       /\ k <= Len(results)
       /\ results[k] = ErrorRow(domains[k], results[k].error)
       /\ results[k].error # ""
  /\ failures # {} => exitCode = -1 /\ Len(results) = i
  /\ (failures # {} /\ pc = "done" /\ ~halted) => Len(results) = total

\* C7: when the quota check finds used >= monthlyQuota the run halts without
\* an error: nothing is dispatched and no row is added from then on, and the
\* rows built before the halt are the rows that are written.
C7_HaltKeepsRows ==
  /\ [][(pc = "loop" /\ i < total /\ used >= monthlyQuota(opts.plan)) =>
          halted' /\ pc' = "output"]_vars
  /\ [][halted' =>
          /\ results' = results
          /\ invoked' = invoked
          /\ queue' = <<>>
          /\ inFlight' = {}
          /\ exitCode' = -1]_vars
  /\ [](halted /\ pc = "done" =>
          report = {[path |-> outputFilename, rows |-> results]})

\* a halted run has written its rows while domains were left
C7_Witness ==
  /\ halted
  /\ pc = "done"
  /\ Len(results) >= 1
  /\ Len(results) < total

\* C8: at every state the k-th row is the row of the k-th domain of the
\* sequence, for successes and failures alike.
C8_RowsInInputOrder ==
  /\ Len(results) <= total
  /\ \A k \in 1..Len(results) : results[k].domain = domains[k]

\* two rows of different domains, the first one a failure
C8_Witness ==
  /\ Len(results) >= 2
  /\ results[1].domain # results[2].domain
  /\ 1 \in failures
  /\ 2 \notin failures

\* C9: if the resolved path exists on disk, the path returned by
\* getOutputFilename differs from it and did not exist before the call.
C9_NeverExisting ==
  (pc = "named" /\ ResolvedFilename(opts, stamps[1]) \in fs) =>
    /\ outputFilename # ResolvedFilename(opts, stamps[1])
    /\ outputFilename \notin fs

\* C10: when the domain sequence is empty after filtering and limiting, the
\* process ends without scanning and without writing an output file.
C10_EmptyNoFile ==
  (Scanning /\ total = 0) => (invoked = <<>> /\ report = {})

\* the technologies of the payload of the latest response
PayloadTechs ==
  IF resp.data.results.kind = "array" THEN resp.data.results.items ELSE <<>>

\* the payload of the latest response has no error flag, and the row of its
\* domain has been built
Detected ==
  /\ pc = "loop"
  /\ i >= 1
  /\ resp.kind = "response"
  /\ ~resp.data.error

\* the payload breaks the construction of the row: results is not an array,
\* or one of the first ten technologies has categories that are not an array
Malformed ==
  \/ resp.data.results.kind = "other"
  \/ \E k \in 1..Min(Len(PayloadTechs), SLOTS) :
        PayloadTechs[k].categories.kind = "other"

HasContent(t) ==
  \/ t.name # Undef
  \/ t.id # Undef
  \/ t.version # Undef
  \/ t.categories.kind # "undef"
  \/ t.url # Undef

\* the row is the fixed-width projection of the technologies of the payload:
\* all ten slot groups, slot k written from technology k for k up to
\* min(N, 10), the slots after N empty, Results_Count equal to N
Projection(row) ==
    LET N   == Len(PayloadTechs)
    IN  /\ DOMAIN row.tech = 1..10
        /\ row.results_count = N
        /\ \A k \in 1..10 :
             /\ k > N => row.tech[k] = EmptySlot
             /\ (k <= N /\ PayloadTechs[k].name # Undef) =>
                  row.tech[k].name = PayloadTechs[k].name
             /\ (k <= N /\ PayloadTechs[k].id # Undef) =>
                  row.tech[k].id = PayloadTechs[k].id
        /\ {k \in 1..10 : row.tech[k] # EmptySlot}
             = {k \in 1..Min(N, 10) : HasContent(PayloadTechs[k])}

NoUndefined(row) ==
  /\ Undef \notin {row.request, row.last_checked, row.result_code,
                   row.result_msg, row.error}
  /\ \A k \in DOMAIN row.tech :
       Undef \notin {row.tech[k].name, row.tech[k].id, row.tech[k].version,
                     row.tech[k].url}

UmbracoSpellings == {"umbraco", "Umbraco", "UMBRACO"}

\* C16: a result is reported as Umbraco iff at least one of its technologies
\* has a name equal to 'umbraco' ignoring case; 'Umbracoo' and a technology
\* without a name do not match.
C16_CaseInsensitiveExact ==
  Detected =>
    (i \in matches <=>
       \E k \in 1..Len(PayloadTechs) :
          PayloadTechs[k].name \in UmbracoSpellings)

\* a technology named UMBRACO was matched
C16_Witness ==
  /\ Detected
  /\ i \in matches
  /\ \E k \in 1..Len(PayloadTechs) : PayloadTechs[k].name = "UMBRACO"

\* C12: whenever an output path is given on the command line and no file
\* exists at that path, getOutputFilename returns exactly that path.
C12_ExplicitPathVerbatim ==
  (/\ pc = "named"
   /\ opts.outputGiven
   /\ opts.output # NoPath
   /\ opts.output \notin fs) => outputFilename = opts.output

\* the sources the program names: two it downloads, one it turns away
KnownSources == {"majestic", "tranco", "alexa"}

\* a missing credential, an unknown plan or an unknown source
ConfigError ==
  \/ ~opts.apiKey
  \/ opts.plan \notin PlanIds
  \/ opts.source \notin KnownSources

\* C13: a run with a missing API credential, an unknown plan or an unknown
\* source ends before any network activity in every input mode: it fetches
\* no list, issues no detection request and builds no row.
C13_ConfigErrorsFatal ==
  ConfigError =>
    /\ ~fetched
    /\ invoked = <<>>
    /\ results = <<>>

\* C14: every run that starts scanning eventually ends, completed or halted,
\* having written one report that holds exactly the rows built so far, one
\* for each domain processed, whatever detections failed.
C14_ScanEndsWithReport ==
  /\ (pc = "loop") ~> (pc = "done")
  /\ [](pc = "done" =>
          /\ halted \/ i = total
          /\ Len(results) = i
          /\ report = {[path |-> outputFilename, rows |-> results]})

\* a run with a failed detection has ended with its report written
C14_Witness ==
  /\ pc = "done"
  /\ failures # {}
  /\ report = {[path |-> outputFilename, rows |-> results]}
  /\ Len(results) = total

\* C17: detectCMS is invoked at most once for each domain of the sequence,
\* failed or not, and the detection of a domain begins only when the rows of
\* all the domains before it, and no other row, are in the result set.
C17_OneAttemptInTurn ==
  /\ [](\A m, n \in 1..Len(invoked) : invoked[m] = invoked[n] => m = n)
  /\ [][invoked' # invoked =>
          /\ Len(invoked') = Len(invoked) + 1
          /\ SubSeq(invoked', 1, Len(invoked)) = invoked
          /\ Len(results) = invoked'[Len(invoked')] - 1]_vars

\* the second domain is being detected after the detection of the first failed
C17_Witness ==
  /\ invoked = <<1, 2>>
  /\ 1 \in failures
  /\ Len(results) = 1
  /\ 2 \in running

\* C18: a step in which a detection fails leaves used unchanged and appends
\* one row; used changes only by +1, in the step that takes the result of a
\* detection that returned; a run that ends without halt has
\* used = D - F, D being the number of domains and F of failed detections.
C18_UsedOnlyAfterSuccess ==
  /\ [][/\ failures' # failures =>
             /\ used' = used
             /\ Len(results') = Len(results) + 1
        /\ used' # used =>
             /\ used' = used + 1
             /\ pc = "await"
             /\ resp'.kind = "response"
             /\ ~resp'.data.error
             /\ failures' = failures]_vars
  /\ [](pc = "done" /\ ~halted => used = total - Cardinality(failures))

\* a run of two domains ended without halt, one detection failed
C18_Witness ==
  /\ pc = "done"
  /\ ~halted
  /\ total = 2
  /\ Cardinality(failures) = 1
  /\ used = 1

\* C19: when detectCMS returned and the construction of the row throws, the
\* step has incremented used and appends exactly one row for the domain, an
\* error row with the message of the exception and empty slots.
C19_RowErrorAfterIncrement ==
  [][(/\ pc = "await"
      /\ pc' = "loop"
      /\ resp'.kind = "response"
      /\ ~resp'.data.error
      /\ Malformed') =>
        /\ used' = used + 1
        /\ Len(results') = Len(results) + 1
        /\ SubSeq(results', 1, Len(results)) = results
        /\ LET row == results'[Len(results')]
           IN  /\ row.domain = domains[i + 1]
               /\ row.error \in {TypeErrorMessage,
                                 "techData.results.find is not a function"}
               /\ row.results_count = 0
               /\ row.results_json = EmptyText
               /\ \A k \in 1..10 : row.tech[k] = EmptySlot]_vars

\* the row of a malformed payload is an error row and used has counted it
C19_Witness ==
  /\ Detected
  /\ Malformed
  /\ used >= 1
  /\ Len(results) = i
  /\ results[i].error = TypeErrorMessage
  /\ results[i].results_count = 0

=============================================================================
